---- MODULE Spec2Model ----
(***************************************************************************)
(* Model of movimento_solar_web.py: one execution of the Streamlit script.  *)
(* An uploaded CSV (two columns) and a selection of regions are turned into *)
(* one irradiance series per region (dados), a shared angle axis (angulos)  *)
(* and a progressive-reveal animation (init / animate), then exported.      *)
(*                                                                         *)
(* Strings are sequences of one-character strings, so that str.strip,      *)
(* str.lower and str.replace are computed character by character.           *)
(* Irradiance values are exact integers in units of 10^-6 W/m2 (the         *)
(* coefficients have at most six decimals and the ADC values are integers). *)
(* Angles are exact rationals [n, d], numerator over denominator.           *)
(***************************************************************************)
EXTENDS Integers, Sequences, FiniteSets, TLC

(***************************************************************************)
(* Bounds of the model.                                                     *)
(***************************************************************************)
MaxRows == 5
MaxSel == 2

(***************************************************************************)
(* State.                                                                   *)
(***************************************************************************)
VARIABLES
    arquivo,             \* the uploaded file, or None
    regioes_escolhidas,  \* the multiselect's value
    pc,                  \* position of the script
    df,                  \* the parsed frame with normalised column labels
    idx,                 \* position of the region loop in regioes_escolhidas
    dados,               \* region -> irradiance series
    warnings,            \* regions reported by st.warning
    frames_total,
    angulos,
    linhas,              \* region -> data of its line artist
    marcadores,          \* region -> data of its marker artist
    i,                   \* frame index of the last animate call, -1 before
    anterior,            \* history: frame index of the call before that one
    gif,                 \* the frames grabbed by ani.save, in order
    saida                \* what the page shows: image, download, qr, error

vars == <<arquivo, regioes_escolhidas, pc, df, idx, dados, warnings,
          frames_total, angulos, linhas, marcadores, i, anterior, gif, saida>>

(***************************************************************************)
(* Python string operations.                                                *)
(***************************************************************************)
UpperChars == <<"A","B","C","D","E","F","G","H","I","J","K","L","M",
                "N","O","P","Q","R","S","T","U","V","W","X","Y","Z">>
LowerChars == <<"a","b","c","d","e","f","g","h","i","j","k","l","m",
                "n","o","p","q","r","s","t","u","v","w","x","y","z">>
Whitespace == {" ", "\t"}

\* upper-case letter -> lower-case letter
LowerMap ==
    [c \in {UpperChars[k] : k \in 1..Len(UpperChars)} |->
        LowerChars[CHOOSE k \in 1..Len(UpperChars) : UpperChars[k] = c]]

LowerChar(c) == IF c \in DOMAIN LowerMap THEN LowerMap[c] ELSE c

\* str.lower()
Lower(s) == [k \in 1..Len(s) |-> LowerChar(s[k])]

\* str.strip(): drops leading and trailing whitespace
Strip(s) ==
    LET keep == {k \in 1..Len(s) : s[k] \notin Whitespace}
    IN  IF keep = {} THEN <<>>
        ELSE LET lo == CHOOSE k \in keep : \A m \in keep : k <= m
                 hi == CHOOSE k \in keep : \A m \in keep : k >= m
             IN  SubSeq(s, lo, hi)

\* str.replace(old, new) for one-character old and new
Replace(s, old, new) == [k \in 1..Len(s) |-> IF s[k] = old THEN new ELSE s[k]]

\* c.strip().replace("ã", "a").replace("á", "a")
NormalizeColumn(c) == Replace(Replace(Strip(c), "ã", "a"), "á", "a")

(***************************************************************************)
(* Region names and the coefficient table (slope, intercept) * 10^6.        *)
(***************************************************************************)
Brasil      == <<"B","r","a","s","i","l">>
Alemanha    == <<"A","l","e","m","a","n","h","a">>
Egito       == <<"E","g","i","t","o">>
Bahia       == <<"B","a","h","i","a">>
MinasGerais == <<"M","i","n","a","s"," ","G","e","r","a","i","s">>
MatoGrosso  == <<"M","a","t","o"," ","G","r","o","s","s","o">>
Parana      == <<"P","a","r","a","n","á">>
Salvador    == <<"S","a","l","v","a","d","o","r">>
Feira       == <<"F","e","i","r","a">>
Barreiras   == <<"B","a","r","r","e","i","r","a","s">>
Cabula      == <<"C","a","b","u","l","a">>

coeficientes ==
    <<  <<Brasil,      <<21269, -37690000>> >>,
        <<Alemanha,    << 9186,  35710000>> >>,
        <<Egito,       <<21190,  23210000>> >>,
        <<Bahia,       <<19239, -40610000>> >>,
        <<MinasGerais, <<23884, -139550000>> >>,
        <<MatoGrosso,  <<21707, -66170000>> >>,
        <<Parana,      <<12767, 104990000>> >>,
        <<Salvador,    <<11556,  58520000>> >>,
        <<Feira,       <<10420,    132000>> >>,
        <<Barreiras,   <<21712,  10180000>> >>,
        <<Cabula,      <<13900, -46430000>> >> >>

\* list(coeficientes.keys())
Keys == {coeficientes[k][1] : k \in 1..Len(coeficientes)}

\* Mutant: keys compared regardless of case
EntryLower(regiao) ==
    IF \E k \in 1..Len(coeficientes) : Lower(coeficientes[k][1]) = Lower(regiao)
    THEN CHOOSE k \in 1..Len(coeficientes) :
            Lower(coeficientes[k][1]) = Lower(regiao)
    ELSE 0

\* position of a key in the dict, 0 when absent: keys compare exactly
Entry(regiao) ==
    IF \E k \in 1..Len(coeficientes) : coeficientes[k][1] = regiao
    THEN CHOOSE k \in 1..Len(coeficientes) : coeficientes[k][1] = regiao
    ELSE 0

\* regiao in coeficientes
InCoeficientes(regiao) == Entry(regiao) # 0

\* coeficientes[regiao]
Lookup(regiao) == coeficientes[Entry(regiao)][2]

(***************************************************************************)
(* Inputs of one run: the uploaded file and the multiselect's value.        *)
(***************************************************************************)
Regiao == <<"R","e","g","i","a","o">>
ADC    == <<"A","D","C">>

\* header cells of the first (region) and second (reading) CSV column
RegiaoHeaders == { <<" ","R","e","g","i","ã","o"," ">>,
                   <<"L","o","c","a","l">> }
ADCHeaders    == { ADC, <<"a","d","c">> }

\* rows of the CSV: <<cell of column 1, cell of column 2>>
Readings == { <<Brasil, 200>>,
              <<<<" ","B","R","A","S","I","L","\t">>, 100>>,
              <<<<"a","l","e","m","a","n","h","a"," ">>, 50>> }

\* the options of the multiselect offered in the model (keys of coeficientes)
Opcoes == { Brasil, Alemanha, Egito }

\* names handed to the region loop when it is exercised on its own: the
\* guard of line 61 provides for names that are no key of coeficientes
Nomes == { Brasil, <<"b","r","a","s","i","l">>, <<"B","R","A","S","I","L">> }

SeqsUpTo(S, n) == UNION { [1..m -> S] : m \in 0..n }

\* a multiselect value: distinct options, in the order chosen
Selections(S, n) ==
    { s \in SeqsUpTo(S, n) : \A j, k \in 1..Len(s) : j # k => s[j] # s[k] }

\* no file uploaded (arquivo is None)
None == [uploaded |-> FALSE, columns |-> <<>>, rows |-> <<>>]

Files ==
    { None } \cup
    [ uploaded : {TRUE}, columns : RegiaoHeaders \X ADCHeaders,
      rows : SeqsUpTo(Readings, MaxRows) ]

(***************************************************************************)
(* Python sequence helpers.                                                 *)
(***************************************************************************)
Min(a, b) == IF a <= b THEN a ELSE b

\* seq[:n]
PySlice(seq, n) ==
    IF n >= 0 THEN SubSeq(seq, 1, Min(n, Len(seq)))
    ELSE IF Len(seq) + n > 0 THEN SubSeq(seq, 1, Len(seq) + n) ELSE <<>>

\* seq[k] is defined (no IndexError)
PyIndexOK(seq, k) == -Len(seq) <= k /\ k < Len(seq)

\* seq[k], a negative k counting from the end
PyIndex(seq, k) == IF k >= 0 THEN seq[k + 1] ELSE seq[Len(seq) + k + 1]

(***************************************************************************)
(* The region loop (lines 59-69).                                           *)
(***************************************************************************)
\* position of a column label in df.columns, 0 when absent (KeyError)
ColumnIndex(columns, label) ==
    IF \E k \in 1..Len(columns) : columns[k] = label
    THEN CHOOSE k \in 1..Len(columns) : columns[k] = label
    ELSE 0

\* Mutant: the region cell compared as it stands, no strip, no lower
SubsetExact(frame, regiao) ==
    LET c == ColumnIndex(frame.columns, Regiao)
    IN  SelectSeq(frame.rows, LAMBDA row : row[c] = regiao)

\* df[df["Regiao"].str.strip().str.lower() == regiao.lower()]
Subset(frame, regiao) ==
    LET c == ColumnIndex(frame.columns, Regiao)
    IN  SelectSeq(frame.rows, LAMBDA row : Lower(Strip(row[c])) = Lower(regiao))

\* Mutant: the series comes out in reverse row order
IrradianciaReversed(frame, subset, regiao) ==
    LET c  == ColumnIndex(frame.columns, ADC)
        ab == Lookup(regiao)
    IN  [k \in 1..Len(subset) |->
            ab[1] * subset[Len(subset) + 1 - k][c] + ab[2]]

\* a * subset["ADC"] + b, element-wise
Irradiancia(frame, subset, regiao) ==
    LET c  == ColumnIndex(frame.columns, ADC)
        ab == Lookup(regiao)
    IN  [k \in 1..Len(subset) |-> ab[1] * subset[k][c] + ab[2]]

\* Mutant: no subset.empty guard, an empty series is stored
RegionOutcomeNoGuard(frame, regiao) ==
    IF ~InCoeficientes(regiao) THEN "continue"
    ELSE IF ColumnIndex(frame.columns, Regiao) = 0 THEN "KeyError"
    ELSE IF ColumnIndex(frame.columns, ADC) = 0 THEN "KeyError"
    ELSE "dados"

\* Mutant: the ADC column is read before the subset.empty guard
RegionOutcomeEager(frame, regiao) ==
    IF ~InCoeficientes(regiao) THEN "continue"
    ELSE IF ColumnIndex(frame.columns, Regiao) = 0 THEN "KeyError"
    ELSE IF ColumnIndex(frame.columns, ADC) = 0 THEN "KeyError"
    ELSE IF Subset(frame, regiao) = <<>> THEN "warning"
    ELSE "dados"

\* which way one iteration of the loop goes
RegionOutcome(frame, regiao) ==
    IF ~InCoeficientes(regiao) THEN "continue"
    ELSE IF ColumnIndex(frame.columns, Regiao) = 0 THEN "KeyError"
    ELSE IF Subset(frame, regiao) = <<>> THEN "warning"
    ELSE IF ColumnIndex(frame.columns, ADC) = 0 THEN "KeyError"
    ELSE "dados"

(***************************************************************************)
(* Alignment and animation (lines 71-107).                                  *)
(***************************************************************************)
\* max(len(v) for v in dados.values())
MaxLen(d) ==
    CHOOSE m \in {Len(d[r]) : r \in DOMAIN d} :
        \A r \in DOMAIN d : Len(d[r]) <= m

\* Mutant: endpoint=False, the stop value is left out
LinspaceOpen(start, stop, num) ==
    LET div == num
    IN  [k \in 1..num |->
            [n |-> start * div + (k - 1) * (stop - start), d |-> div]]

\* np.linspace(start, stop, num) with endpoint=True, as exact rationals n/d
Linspace(start, stop, num) ==
    LET div == num - 1
    IN  [k \in 1..num |->
            IF div > 0
            THEN [n |-> start * div + (k - 1) * (stop - start), d |-> div]
            ELSE [n |-> start, d |-> 1]]

\* Mutant: off by one, n = min(i, len(valores))
NRevealedLate(frame, len) == Min(frame, len)

\* Mutant: the reveal starts over once the series is exhausted
NRevealedLoop(frame, len) == IF len > 0 THEN (frame % len) + 1 ELSE 0

\* n = min(i + 1, len(valores))
NRevealed(frame, len) == Min(frame + 1, len)

\* animate(frame) indexes angulos and valores at n-1 without an IndexError
AnimateOK(d, ang, frame) ==
    \A r \in DOMAIN d :
        LET n == NRevealed(frame, Len(d[r]))
        IN  PyIndexOK(ang, n - 1) /\ PyIndexOK(d[r], n - 1)

\* Mutant: each call appends its point to what the line already shows
AnimateLinhasAppend(d, ang, frame) ==
    [r \in DOMAIN d |->
        LET n == NRevealed(frame, Len(d[r]))
        IN  [x |-> Append(linhas[r].x, PyIndex(ang, n - 1)),
             y |-> Append(linhas[r].y, PyIndex(d[r], n - 1))]]

\* linhas[regiao].set_data(angulos[:n], valores[:n])
AnimateLinhas(d, ang, frame) ==
    [r \in DOMAIN d |->
        LET n == NRevealed(frame, Len(d[r]))
        IN  [x |-> PySlice(ang, n), y |-> PySlice(d[r], n)]]

\* marcadores[regiao].set_data([angulos[n-1]], [valores[n-1]])
AnimateMarcadores(d, ang, frame) ==
    [r \in DOMAIN d |->
        LET n == NRevealed(frame, Len(d[r]))
        IN  [x |-> <<PyIndex(ang, n - 1)>>, y |-> <<PyIndex(d[r], n - 1)>>]]

NoData == [x |-> <<>>, y |-> <<>>]
Empty == [r \in {} |-> <<>>]

InitState ==
    /\ pc = "start"
    /\ df = [columns |-> <<>>, rows |-> <<>>]
    /\ idx = 0
    /\ dados = Empty
    /\ warnings = {}
    /\ frames_total = 0
    /\ angulos = <<>>
    /\ linhas = Empty
    /\ marcadores = Empty
    /\ i = -1
    /\ anterior = -1
    /\ gif = <<>>
    /\ saida = {}

Init ==
    /\ arquivo \in Files
    /\ regioes_escolhidas \in Selections(Opcoes, MaxSel)
    /\ InitState

\* the region loop given names that need not be options of the multiselect
InitNomes ==
    /\ arquivo \in Files
    /\ regioes_escolhidas \in Selections(Nomes, MaxSel)
    /\ InitState

(***************************************************************************)
(* Actions.                                                                 *)
(***************************************************************************)
\* lines 55-59: if arquivo and regioes_escolhidas: read_csv, normalise columns
Run ==
    /\ pc = "start"
    /\ IF arquivo.uploaded /\ regioes_escolhidas # <<>>
       THEN /\ df' = [columns |-> [k \in 1..Len(arquivo.columns) |->
                                      NormalizeColumn(arquivo.columns[k])],
                      rows |-> arquivo.rows]
            /\ idx' = 1
            /\ pc' = "loop"
       ELSE /\ pc' = "idle"
            /\ UNCHANGED <<df, idx>>
    /\ UNCHANGED <<arquivo, regioes_escolhidas, dados, warnings, frames_total,
                   angulos, linhas, marcadores, i, anterior, gif, saida>>

\* lines 60-69: one iteration of the loop over regioes_escolhidas
ProcessRegion ==
    /\ pc = "loop"
    /\ idx <= Len(regioes_escolhidas)
    /\ LET regiao  == regioes_escolhidas[idx]
           outcome == RegionOutcome(df, regiao)
       IN  /\ pc' = IF outcome = "KeyError" THEN "KeyError" ELSE "loop"
           /\ idx' = IF outcome = "KeyError" THEN idx ELSE idx + 1
           /\ warnings' = IF outcome = "warning"
                          THEN warnings \cup {regiao} ELSE warnings
           /\ dados' = IF outcome = "dados"
                       THEN [r \in DOMAIN dados \cup {regiao} |->
                                IF r = regiao
                                THEN Irradiancia(df, Subset(df, regiao), regiao)
                                ELSE dados[r]]
                       ELSE dados
    /\ UNCHANGED <<arquivo, regioes_escolhidas, df, frames_total, angulos,
                   linhas, marcadores, i, anterior, gif, saida>>

\* Mutant: the else branch with st.error is missing
AlignNoError ==
    /\ pc = "loop"
    /\ idx > Len(regioes_escolhidas)
    /\ IF DOMAIN dados # {}
       THEN /\ frames_total' = MaxLen(dados)
            /\ angulos' = Linspace(0, 180, MaxLen(dados))
            /\ linhas' = [r \in DOMAIN dados |-> NoData]
            /\ marcadores' = [r \in DOMAIN dados |-> NoData]
            /\ pc' = "init"
            /\ UNCHANGED saida
       ELSE /\ pc' = "done"
            /\ UNCHANGED <<saida, frames_total, angulos, linhas, marcadores>>
    /\ UNCHANGED <<arquivo, regioes_escolhidas, df, idx, dados, warnings, i,
                   anterior, gif>>

\* lines 71-92 and 138-139: if dados: axis and artists, else st.error
Align ==
    /\ pc = "loop"
    /\ idx > Len(regioes_escolhidas)
    /\ IF DOMAIN dados # {}
       THEN /\ frames_total' = MaxLen(dados)
            /\ angulos' = Linspace(0, 180, MaxLen(dados))
            /\ linhas' = [r \in DOMAIN dados |-> NoData]
            /\ marcadores' = [r \in DOMAIN dados |-> NoData]
            /\ pc' = "init"
            /\ UNCHANGED saida
       ELSE /\ saida' = saida \cup {"error"}
            /\ pc' = "done"
            /\ UNCHANGED <<frames_total, angulos, linhas, marcadores>>
    /\ UNCHANGED <<arquivo, regioes_escolhidas, df, idx, dados, warnings, i,
                   anterior, gif>>

\* lines 94-97: init(), called once by ani.save before the first frame
InitFunc ==
    /\ pc = "init"
    /\ linhas' = [r \in DOMAIN linhas |-> NoData]
    /\ pc' = "animate"
    /\ UNCHANGED <<arquivo, regioes_escolhidas, df, idx, dados, warnings,
                   frames_total, angulos, marcadores, i, anterior, gif, saida>>

\* lines 99-105: the body of animate(frame)
AnimateBody(frame) ==
    IF AnimateOK(dados, angulos, frame)
    THEN /\ linhas' = AnimateLinhas(dados, angulos, frame)
         /\ marcadores' = AnimateMarcadores(dados, angulos, frame)
         /\ pc' = "animate"
    ELSE /\ pc' = "IndexError"
         /\ UNCHANGED <<linhas, marcadores>>

\* lines 107-111: ani.save draws frame i+1 and grabs it
Animate ==
    /\ pc = "animate"
    /\ i + 1 < frames_total
    /\ AnimateBody(i + 1)
    /\ i' = i + 1
    /\ anterior' = i
    /\ gif' = IF pc' = "animate"
              THEN Append(gif, [linhas |-> linhas', marcadores |-> marcadores'])
              ELSE gif
    /\ UNCHANGED <<arquivo, regioes_escolhidas, df, idx, dados, warnings,
                   frames_total, angulos, saida>>

\* animate(frame) called for an arbitrary frame index, in any order
AnimateAny ==
    /\ pc = "animate"
    /\ \E frame \in 0..(frames_total - 1) :
        /\ AnimateBody(frame)
        /\ i' = frame
    /\ anterior' = i
    /\ UNCHANGED <<arquivo, regioes_escolhidas, df, idx, dados, warnings,
                   frames_total, angulos, gif, saida>>

\* lines 112-136: st.image, st.download_button, QR code
Export ==
    /\ pc = "animate"
    /\ i + 1 >= frames_total
    /\ saida' = saida \cup {"image", "download_button", "qr"}
    /\ pc' = "done"
    /\ UNCHANGED <<arquivo, regioes_escolhidas, df, idx, dados, warnings,
                   frames_total, angulos, linhas, marcadores, i, anterior, gif>>

Next == Run \/ ProcessRegion \/ Align \/ InitFunc \/ Animate \/ Export

Spec == Init /\ [][Next]_vars

NextAny == Run \/ ProcessRegion \/ Align \/ InitFunc \/ AnimateAny

SpecAny == Init /\ [][NextAny]_vars

SpecNomes == InitNomes /\ [][Next]_vars

(***************************************************************************)
(* What the claims are stated over: the uploaded rows and header as they    *)
(* were given, and the regions the loop has already gone through.           *)
(***************************************************************************)
PlainRegiaoHeaders == { <<"R","e","g","i","a","o">>,
                        <<" ","R","e","g","i","ã","o"," ">> }
HasRegiao == arquivo.uploaded /\ arquivo.columns[1] \in PlainRegiaoHeaders
HasADC == arquivo.uploaded /\ arquivo.columns[2] = <<"A","D","C">>
Started == arquivo.uploaded /\ regioes_escolhidas # <<>>

\* rows whose region cell, stripped and lower-cased, is r lower-cased
Matching(r) ==
    { j \in 1..Len(arquivo.rows) : Lower(Strip(arquivo.rows[j][1])) = Lower(r) }

\* the k-th of a set M of row positions, counting in input order
Nth(M, k) == CHOOSE j \in M : Cardinality({m \in M : m <= j}) = k

\* the loop is past position k of the selection
Processed(k) == pc \notin {"start", "idle"} /\ k < idx

Selected == { regioes_escolhidas[k] : k \in 1..Len(regioes_escolhidas) }

LoopDone == pc \in {"init", "animate", "done"}

(***************************************************************************)
(* C5: the series of a selected region has one value per matching row       *)
(* (region cell stripped and lower-cased equal to the region lower-cased),  *)
(* in input row order, the k-th being slope * adc + intercept of the k-th   *)
(* matching row; a region without matching rows has no series.              *)
(***************************************************************************)
C5_SeriesFollowsRows ==
    \A k \in 1..Len(regioes_escolhidas) :
        Processed(k) =>
            LET r == regioes_escolhidas[k]
                M == Matching(r)
                n == Cardinality(M)
                slope == Lookup(r)[1]
                intercept == Lookup(r)[2]
            IN  IF n = 0 THEN r \notin DOMAIN dados
                ELSE /\ r \in DOMAIN dados
                     /\ Len(dados[r]) = n
                     /\ \A m \in 1..n :
                            dados[r][m] =
                                slope * arquivo.rows[Nth(M, m)][2] + intercept

\* Brasil read from rows 200 then 100, a row of another region in between
C5_Witness ==
    /\ pc = "done"
    /\ Brasil \in DOMAIN dados
    /\ dados[Brasil] = << -33436200, -35563100 >>
    /\ Len(arquivo.rows) = 3
    /\ arquivo.rows[2][2] = 50

(***************************************************************************)
(* C3: with both expected columns present, a selected region without        *)
(* matching rows is warned about and left out of dados, the run is not      *)
(* aborted, every selected region with a matching row is computed and is    *)
(* in every frame of the animation, and no series in dados is empty.        *)
(***************************************************************************)
C3_NoDataRegionDropped ==
    /\ \A r \in DOMAIN dados : dados[r] # <<>>
    /\ (HasRegiao /\ HasADC) =>
        /\ pc \notin {"KeyError", "IndexError"}
        /\ \A k \in 1..Len(regioes_escolhidas) :
            Processed(k) =>
                LET r == regioes_escolhidas[k]
                IN  IF Matching(r) = {}
                    THEN r \in warnings /\ r \notin DOMAIN dados
                    ELSE r \notin warnings /\ r \in DOMAIN dados
        /\ pc = "done" =>
            \A r \in Selected :
                Matching(r) # {} =>
                    /\ saida = {"image", "download_button", "qr"}
                    /\ Len(gif) = frames_total
                    /\ \A f \in 1..Len(gif) :
                        /\ r \in DOMAIN gif[f].linhas
                        /\ gif[f].linhas[r].y # <<>>

\* Egito has no rows and is dropped, Brasil is animated after it
C3_Witness ==
    /\ pc = "done"
    /\ regioes_escolhidas = <<Egito, Brasil>>
    /\ warnings = {Egito}
    /\ DOMAIN dados = {Brasil}
    /\ "image" \in saida
    /\ Len(gif) >= 1

(***************************************************************************)
(* C4: when the loop ends with no region left in dados (no selected region  *)
(* has a matching row) the run ends in st.error and shows no animation, no  *)
(* download button and no QR code; these are shown only when some selected  *)
(* region has data, and then without the error.                             *)
(***************************************************************************)
C4_NoValidRegions ==
    /\ (LoopDone /\ \A r \in Selected : Matching(r) = {}) =>
        /\ pc = "done"
        /\ DOMAIN dados = {}
        /\ saida = {"error"}
        /\ gif = <<>>
    /\ (pc = "done" /\ DOMAIN dados = {}) => (saida = {"error"} /\ gif = <<>>)
    /\ (saida \cap {"image", "download_button", "qr"} # {} \/ gif # <<>>) =>
        /\ "error" \notin saida
        /\ DOMAIN dados # {}
        /\ \E r \in Selected : Matching(r) # {}
    /\ "error" \in saida => DOMAIN dados = {}

\* rows are there, but none for the two selected regions
C4_Witness ==
    /\ pc = "done"
    /\ saida = {"error"}
    /\ Len(regioes_escolhidas) = 2
    /\ warnings = Selected
    /\ Len(arquivo.rows) >= 2

(***************************************************************************)
(* The frame the claims expect for frame index f, written out entry by      *)
(* entry from dados and angulos.                                            *)
(***************************************************************************)
ExpectedN(f, r) == IF f + 1 <= Len(dados[r]) THEN f + 1 ELSE Len(dados[r])

ShowsFrame(f, r, linha, marcador) ==
    LET n == ExpectedN(f, r)
    IN  /\ Len(linha.x) = n
        /\ Len(linha.y) = n
        /\ \A j \in 1..n : linha.x[j] = angulos[j] /\ linha.y[j] = dados[r][j]
        /\ marcador.x = <<angulos[n]>>
        /\ marcador.y = <<dados[r][n]>>

(***************************************************************************)
(* C1: frame i shows, for every region of dados with series length L, the   *)
(* first n = min(i+1, L) (angle, irradiance) pairs and the marker on pair   *)
(* n-1; from i = L-1 on the line has exactly L points and the marker is on  *)
(* the last value of the series.                                            *)
(***************************************************************************)
C1_FrameShowsPrefix ==
    /\ \A f \in 1..Len(gif) :
        /\ DOMAIN gif[f].linhas = DOMAIN dados
        /\ DOMAIN gif[f].marcadores = DOMAIN dados
        /\ \A r \in DOMAIN dados :
            /\ ShowsFrame(f - 1, r, gif[f].linhas[r], gif[f].marcadores[r])
            /\ f - 1 >= Len(dados[r]) - 1 =>
                /\ gif[f].linhas[r].y = dados[r]
                /\ gif[f].marcadores[r].y = <<dados[r][Len(dados[r])]>>
    /\ (pc = "animate" /\ i >= 0) =>
        /\ Len(gif) = i + 1
        /\ gif[i + 1] = [linhas |-> linhas, marcadores |-> marcadores]

\* the second frame of the end-to-end scenario: Brasil fully shown,
\* Alemanha held on its only point
C1_Witness ==
    /\ Len(gif) = 2
    /\ DOMAIN dados = {Brasil, Alemanha}
    /\ gif[2].linhas[Brasil].y = << -33436200, -35563100 >>
    /\ gif[2].linhas[Alemanha].y = << 36169300 >>
    /\ gif[2].marcadores[Alemanha].x = << [n |-> 0, d |-> 1] >>
    /\ gif[2].marcadores[Brasil].x = << [n |-> 180, d |-> 1] >>

(***************************************************************************)
(* C2: from one frame to the next, in the order ani.save draws them, the    *)
(* number of points a line shows never decreases, never exceeds the length  *)
(* of its series, and stays at that length once it has reached it.          *)
(***************************************************************************)
C2_PrefixNeverShrinks ==
    [][ (pc = "animate" /\ pc' = "animate") =>
            \A r \in DOMAIN dados :
                /\ Len(linhas[r].y) <= Len(linhas'[r].y)
                /\ Len(linhas'[r].y) <= Len(dados[r])
                /\ Len(linhas[r].y) = Len(dados[r]) =>
                        Len(linhas'[r].y) = Len(dados[r]) ]_vars

\* the last of three frames: one line stopped at its two points a frame
\* ago, the other still grew
C2_Witness ==
    /\ pc = "animate"
    /\ i = 2
    /\ \E r \in DOMAIN dados : Len(dados[r]) = 2 /\ Len(linhas[r].y) = 2
    /\ \E r \in DOMAIN dados : Len(linhas[r].y) = 3

(***************************************************************************)
(* C8: frames_total is the greatest series length in dados; angulos has     *)
(* frames_total entries, evenly spaced and strictly increasing from 0 to    *)
(* 180, and is the single entry 0 when frames_total is 1.                   *)
(***************************************************************************)
C8_AngleAxis ==
    LoopDone /\ DOMAIN dados # {} =>
        /\ \E r \in DOMAIN dados : Len(dados[r]) = frames_total
        /\ \A r \in DOMAIN dados : Len(dados[r]) <= frames_total
        /\ Len(angulos) = frames_total
        /\ \A k \in 1..Len(angulos) : angulos[k].d > 0
        /\ angulos[1].n = 0
        /\ frames_total = 1 => angulos = << [n |-> 0, d |-> 1] >>
        /\ frames_total > 1 =>
                angulos[frames_total].n = 180 * angulos[frames_total].d
        /\ \A k \in 1..(frames_total - 1) :
                angulos[k].n * angulos[k + 1].d < angulos[k + 1].n * angulos[k].d
        /\ \A k \in 1..(frames_total - 2) :
                (angulos[k + 1].n * angulos[k].d - angulos[k].n * angulos[k + 1].d)
                    * angulos[k + 2].d
                = (angulos[k + 2].n * angulos[k + 1].d
                        - angulos[k + 1].n * angulos[k + 2].d)
                    * angulos[k].d

\* series of lengths 2 and 3: three frames at 0, 90 and 180 degrees
C8_Witness ==
    /\ pc = "init"
    /\ frames_total = 3
    /\ \E r \in DOMAIN dados : Len(dados[r]) = 2
    /\ angulos[2].n = 90 * angulos[2].d
    /\ angulos[3].n = 180 * angulos[3].d

(***************************************************************************)
(* C9: animate(i) depends on i alone: whatever frames were drawn before,    *)
(* in whatever order, a call for i leaves every line and marker showing     *)
(* the frame of i, and leaves dados and angulos as they were.               *)
(***************************************************************************)
C9_AnimatePure ==
    [][ (pc = "animate" /\ (i' # i \/ anterior' # anterior)) =>
            /\ pc' = "animate"
            /\ dados' = dados
            /\ angulos' = angulos
            /\ DOMAIN linhas' = DOMAIN dados
            /\ DOMAIN marcadores' = DOMAIN dados
            /\ \A r \in DOMAIN dados :
                    ShowsFrame(i', r, linhas'[r], marcadores'[r])
            /\ (i' = i /\ i >= 0) =>
                    (linhas' = linhas /\ marcadores' = marcadores) ]_vars

\* frame 0 drawn again right after the last frame
C9_Witness ==
    /\ pc = "animate"
    /\ frames_total = 3
    /\ anterior = 2
    /\ i = 0
    /\ \A r \in DOMAIN dados : Len(linhas[r].y) = 1

(***************************************************************************)
(* C10: in every frame i of 0..frames_total-1 and for every region of       *)
(* dados, the index n-1 of the marker, n = min(i+1, L), is at least 0 and   *)
(* less than both L and frames_total, so it never counts from the end of    *)
(* the series or of the angle axis.                                         *)
(***************************************************************************)
C10_MarkerIndexValid ==
    /\ pc # "IndexError"
    /\ LoopDone =>
        \A f \in 0..(frames_total - 1) :
            \A r \in DOMAIN dados :
                LET n == NRevealed(f, Len(dados[r]))
                IN  /\ 0 <= n - 1
                    /\ n - 1 < Len(dados[r])
                    /\ n - 1 < frames_total
                    /\ n - 1 < Len(angulos)
    /\ (pc = "animate" /\ i >= 0) =>
        \A r \in DOMAIN dados :
            /\ Len(marcadores[r].y) = 1
            /\ Len(linhas[r].y) >= 1
            /\ marcadores[r].y[1] = linhas[r].y[Len(linhas[r].y)]
            /\ marcadores[r].x[1] = linhas[r].x[Len(linhas[r].x)]

\* a one-row region next to a two-row region, on the last frame
C10_Witness ==
    /\ pc = "animate"
    /\ i = 1
    /\ frames_total = 2
    /\ \E r \in DOMAIN dados : Len(dados[r]) = 1
    /\ Len(arquivo.rows) = 3
    /\ Cardinality(warnings) = 0

C7_MissingColumnIsHardError ==
    (Started /\ ~(HasRegiao /\ HasADC)) =>
        /\ pc \in {"start", "loop", "KeyError"}
        /\ saida = {}

(***************************************************************************)
(* C7 amended: a run with a file and a non-empty selection ends in the      *)
(* raised KeyError, with nothing shown but warnings for earlier selected    *)
(* regions without rows, whenever the Regiao column is missing, or the ADC  *)
(* column is missing and some selected region has a matching row. When      *)
(* only the ADC column is missing and no selected region has a matching     *)
(* row, every selected region is warned about and the run ends in the       *)
(* NoValidRegions error. In neither case is an animation produced.          *)
(***************************************************************************)
C7_MissingColumn ==
    (Started /\ ~(HasRegiao /\ HasADC)) =>
        /\ saida \subseteq {"error"}
        /\ gif = <<>>
        /\ ~HasRegiao =>
            /\ pc \in {"start", "loop", "KeyError"}
            /\ pc = "loop" => idx = 1
            /\ warnings = {}
            /\ saida = {}
        /\ (HasRegiao /\ \E r \in Selected : Matching(r) # {}) =>
            /\ pc \in {"start", "loop", "KeyError"}
            /\ pc = "loop" =>
                    \A k \in 1..(idx - 1) : Matching(regioes_escolhidas[k]) = {}
            /\ pc = "KeyError" => Matching(regioes_escolhidas[idx]) # {}
            /\ \A r \in warnings : Matching(r) = {}
            /\ saida = {}
        /\ (HasRegiao /\ \A r \in Selected : Matching(r) = {}) =>
            /\ pc \in {"start", "loop", "done"}
            /\ pc = "done" => (saida = {"error"} /\ warnings = Selected)

\* no ADC column and no row of the selected regions: the error message
C7_Witness ==
    /\ pc = "done"
    /\ HasRegiao
    /\ ~HasADC
    /\ Len(arquivo.rows) >= 2
    /\ saida = {"error"}
    /\ warnings = Selected

====
